---- MODULE Spec2Model ----
(***************************************************************************)
(* Model of the auto-moderation cog (cogs/automod.py): the Warning Ledger  *)
(* (sqlite table with an in-memory fallback map), the on_message           *)
(* detection-and-escalation handler with its await points, the word        *)
(* matcher and the staff check; and of the word-list store                 *)
(* (cogs/blacklist.py, cogs/utils.py) that feeds the matcher.              *)
(***************************************************************************)
EXTENDS Integers, Sequences, FiniteSets, TLC

(***************************************************************************)
(* Bounds of the model and program constants.                              *)
(***************************************************************************)
\* ledger calls made in one run of the ledger specification
MaxCalls == 4
\* messages delivered to on_message in one run of the pipeline specification
MaxMessages == 2
\* AutoMod.MAX_WARNINGS
MAX_WARNINGS == 10
\* length of the texts handed to the matcher in its own specification
MaxTextLen == 4
\* word-list commands and reloads in one run of the word-list specification
MaxCommands == 3
\* messages and permission events in one run of the staff specification
MaxEvents == 4
\* the last reading of the clock, in seconds
MaxTime == 4
\* AI commands given in a run
MaxRequests == 3
\* words in a list handed to chunk_words, and the largest per_page
MaxWords == 3
MaxPerPage == 2
\* blacklist.py: MONO_MAX, and the per_page PaginatorView chunks with
MONO_MAX == 1990
PAGE_SIZE == 100
\* AICog.COOLDOWN_SECONDS and AICog.REQUEST_TIMEOUT
COOLDOWN_SECONDS == 3
REQUEST_TIMEOUT == 30

\* user ids whose messages and warnings are modelled
Users == {1, 2}
\* guild ids; message.guild is None (NoGuild) for a direct message
Guilds == {1, 2}
\* the on_message coroutines that can be suspended at an await at one time
Slots == {1, 2}
NoGuild == 0
\* the local user_id of on_message before line 218 binds it
Unbound == 0

\* Python's None, as the value of db_file
None == "None"
\* the database file name assigned in __init__
DbName == "warnings.db"

\* warning counts a table row can hold when the process starts: the table is
\* durable, so a row may hold any count an earlier run left, among them the
\* counts just below the escalation threshold
StartCounts == {0, 1, MAX_WARNINGS - 2, MAX_WARNINGS - 1}

\* a dict / table: a function on the set of its keys
Dicts(K, V) == UNION {[S -> V] : S \in SUBSET K}
DictGet(d, k, default) == IF k \in DOMAIN d THEN d[k] ELSE default
DictSet(d, k, v) == [x \in (DOMAIN d) \cup {k} |-> IF x = k THEN v ELSE d[x]]
DictPop(d, k) == [x \in (DOMAIN d) \ {k} |-> d[x]]
EmptyDict == [x \in {} |-> 0]

VARIABLES
    db_file,            \* AutoMod.db_file: DbName, or None once degraded
    db,                 \* the warnings table: user_id -> warning_count
    fallback_warnings,  \* AutoMod.fallback_warnings
    last_call,          \* the last ledger call made directly: op, user, result
    history,            \* per user: the values returned by increment_warning
                        \* since the start or the last reset_warnings
    start_count,        \* per user: the count the run started with
    ncalls,             \* number of direct ledger calls made
    handlers,           \* per slot, the on_message coroutine that reached an
                        \* await: position, locals, effects so far
    last_event,         \* what on_message decided for the last message
    arrived,            \* number of messages delivered
    words_file,         \* cogs/words.py: the list assigned to blat
    blacklist_cache,    \* BlacklistCog._blacklist_cache
    manager_file,       \* the words file of a BlacklistManager driven directly
    manager_blacklist,  \* that BlacklistManager's blacklist
    automod_blacklist,  \* AutoMod._blacklist
    automod_pattern,    \* AutoMod._pattern
    automod_manager,    \* AutoMod.manager.blacklist: the list AutoMod's own
                        \* BlacklistManager read from cogs/words.py
    last_command,       \* the last word-list command or call and its outcome
    ncommands,          \* number of word-list commands, calls and reloads
    last_text,          \* the text last handed to _contains_blacklisted_word
    found,              \* what it returned, << >> before it returns
    perms,              \* per (user, guild): what the bot's cache knows
    staff_cache,        \* the lru_cache of _is_staff_cached
    last_check,         \* the last staff check: key, answer, cache hit
    nevents,            \* number of messages and permission events
    client,             \* AICog.client: None when initialization failed
    user_cooldowns,     \* AICog.user_cooldowns: user -> time.time() of the
                        \* last request that passed the rate limit
    now,                \* what time.time() returns, in seconds
    last_request,       \* the last ask / joke command and how it ended
    nrequests,          \* number of ask / joke commands given
    owner_id,           \* guild.owner_id of the guild moderated
    top_role,           \* per member: the position of member.top_role
    last_moderation,    \* the last kick / ban / mute command and what it did
    listed,             \* the word list handed to chunk_words / PaginatorView
    per_page,           \* chunk_words' per_page
    pages,              \* the pages made of it, each the list of words joined
    stage,              \* "start", "chunked" (chunk_words returned) or
                        \* "open" (a PaginatorView was constructed)
    view                \* PaginatorView: page_index, the buttons' disabled
                        \* flags, the page_index asked for, the last press

ledger == <<db_file, db, fallback_warnings>>
calls == <<last_call, history, ncalls>>
pipeline == <<handlers, last_event, arrived>>
wordlist == <<words_file, blacklist_cache, manager_file, manager_blacklist,
              last_command, ncommands>>
matcher == <<automod_blacklist, automod_pattern, automod_manager, last_text, found>>
staffing == <<perms, staff_cache, last_check, nevents>>
assistant == <<client, user_cooldowns, now, last_request, nrequests>>
\* the cogs that share no state with AutoMod and the word list
moderation == <<owner_id, top_role, last_moderation>>
paging == <<listed, per_page, pages, stage, view>>
aside == <<assistant, moderation, paging>>
vars == <<db_file, db, fallback_warnings, last_call, history, start_count, ncalls,
          handlers, last_event, arrived,
          words_file, blacklist_cache, manager_file, manager_blacklist,
          automod_blacklist, automod_pattern, automod_manager,
          last_command, ncommands, last_text, found,
          perms, staff_cache, last_check, nevents,
          client, user_cooldowns, now, last_request, nrequests,
          owner_id, top_role, last_moderation,
          listed, per_page, pages, stage, view>>

\* the ledger as one value, for the operators that model its methods
Ledger == [db_file |-> db_file, db |-> db, fallback_warnings |-> fallback_warnings]

(***************************************************************************)
(* Strings are sequences of characters.  The alphabet has a letter in both *)
(* cases, a punctuation mark and white space.                              *)
(***************************************************************************)
Chars == {"a", "A", "!", " "}
\* the characters the regex class \w holds
WordChars == {"a", "A"}
\* all strings over S of length at most n
Seqs(S, n) == UNION {[1..k -> S] : k \in 0..n}

\* str.lower()
Lower(c) == IF c = "A" THEN "a" ELSE c
LowerAll(s) == [i \in 1..Len(s) |-> Lower(s[i])]
\* str.strip()
RECURSIVE Strip(_)
Strip(s) ==
    IF s = << >> THEN s
    ELSE IF Head(s) = " " THEN Strip(Tail(s))
    ELSE IF s[Len(s)] = " " THEN Strip(SubSeq(s, 1, Len(s) - 1))
    ELSE s
\* word.lower() without the strip()
LowerOnly(word) == LowerAll(word)

\* word.lower().strip()
Normalize(word) == Strip(LowerAll(word))

\* what the word-list commands can be given: nothing, white space only, a
\* word as it is stored, the same word in upper case or with white space
\* before or after it, and a second word in two casings
RawWords == {<< >>, <<" ">>, <<"a">>, <<"A">>, <<" ", "a">>, <<"A", " ">>,
             <<"a", "a">>, <<"a", "A">>}
\* texts handed to the matcher
MatcherTexts == Seqs(Chars, MaxTextLen)

(***************************************************************************)
(* The matcher: AutoMod._compile_blacklist_patterns and                    *)
(* AutoMod._contains_blacklisted_word.  The compiled pattern is            *)
(* \b(?:w1|w2|...)\b with every word escaped, searched ignoring case.      *)
(***************************************************************************)
\* self._pattern = None
NoPattern == [compiled |-> FALSE, words |-> {}]

\* _compile_blacklist_patterns; error = re.compile raised re.error
CompileBlacklistPatterns(blacklist, error) ==
    IF blacklist = {} THEN NoPattern
    ELSE IF error THEN NoPattern
    ELSE [compiled |-> TRUE, words |-> blacklist]

\* the character at position p of t is a word character; there is none
\* before the first or after the last position
IsWordAt(t, p) == p >= 1 /\ p <= Len(t) /\ t[p] \in WordChars
\* \b holds between positions p and p + 1 of t
Boundary(t, p) == IsWordAt(t, p) # IsWordAt(t, p + 1)
\* the escaped word w matches the characters p + 1 .. p + Len(w) of t under
\* re.IGNORECASE
MatchesAt(w, t, p) ==
    /\ p + Len(w) <= Len(t)
    /\ \A k \in 1..Len(w) : Lower(t[p + k]) = Lower(w[k])
\* pattern.search(t): some alternative matches somewhere between two \b
PatternSearch(pattern, t) ==
    \E w \in pattern.words : \E p \in 0..Len(t) :
       Boundary(t, p) /\ MatchesAt(w, t, p) /\ Boundary(t, p + Len(w))
\* word in text_lower: the word as stored, compared with the lowered text
SubstringIn(w, t) ==
    \E p \in 0..Len(t) :
       /\ p + Len(w) <= Len(t)
       /\ \A k \in 1..Len(w) : t[p + k] = w[k]

\* _contains_blacklisted_word
ContainsBlacklistedWord(blacklist, pattern, t) ==
    IF blacklist = {} THEN FALSE
    ELSE IF pattern.compiled THEN PatternSearch(pattern, t)
    ELSE \E w \in blacklist : SubstringIn(w, LowerAll(t))

(***************************************************************************)
(* The staff check: AutoMod._is_staff_cached behind functools.lru_cache.   *)
(***************************************************************************)
\* what the bot's cache of guilds and members holds for a (user, guild):
\* the guild is not known, the user is not a member of it, or the member's
\* highest standing
Standings == {"unknown_guild", "not_member", "member", "manage_messages",
              "administrator", "owner"}
Keys == Users \X Guilds

\* lines 185 to 193: the body of _is_staff_cached
IsStaff(standing) == standing \in {"manage_messages", "administrator", "owner"}

\* _is_staff_cached(user_id, guild_id) through lru_cache: an entry made by an
\* earlier call is returned as it is, otherwise the body runs and its answer
\* is stored, whether true or false
IsStaffCached(cache, standings, key) ==
    IF key \in DOMAIN cache
    THEN [answer |-> cache[key], cache |-> cache, hit |-> TRUE]
    ELSE [answer |-> IsStaff(standings[key]),
          cache |-> DictSet(cache, key, IsStaff(standings[key])),
          hit |-> FALSE]

(***************************************************************************)
(* A words file on disk: absent; there but not Python (ast.parse and the   *)
(* import both raise SyntaxError); or a module whose list literal blat     *)
(* holds the strings given (none for a file without blat, as the empty     *)
(* file a failed write leaves).                                            *)
(***************************************************************************)
NoFile == [exists |-> FALSE, parses |-> FALSE, blat |-> << >>]
Garbled == [exists |-> TRUE, parses |-> FALSE, blat |-> << >>]
FileOf(list) == [exists |-> TRUE, parses |-> TRUE, blat |-> list]

\* the elements of a list
Range(list) == {list[i] : i \in 1..Len(list)}

(***************************************************************************)
(* The parts of the state a specification does not move.                   *)
(***************************************************************************)
\* the word set AutoMod holds while the ledger, the pipeline or the staff
\* check is looked at
Blacklist == {<<"a">>}
NoCommand == [op |-> "none", word |-> << >>, plain |-> TRUE, blank |-> TRUE,
              reply |-> "none",
              wrote |-> FALSE, failed |-> FALSE, broadcast |-> FALSE,
              again |-> FALSE]
NoCheck == [key |-> <<0, 0>>, answer |-> FALSE, hit |-> FALSE]

\* no word-list command is given: the file and both copies stay as loaded
WordListAtRest(list) ==
    /\ words_file = FileOf(list)
    /\ blacklist_cache = Range(list)
    /\ manager_file = FileOf(<< >>)
    /\ manager_blacklist = << >>
    /\ last_command = NoCommand
    /\ ncommands = 0
\* AutoMod holds the word set bl, read by its manager as list, compiled, and
\* has matched nothing yet
MatcherAtRest(bl, list) ==
    /\ automod_blacklist = bl
    /\ automod_manager = list
    /\ automod_pattern = CompileBlacklistPatterns(bl, FALSE)
    /\ last_text = << >>
    /\ found = << >>
\* no staff check was made: every user is a plain member, the cache is empty
StaffAtRest ==
    /\ perms = [k \in Keys |-> "member"]
    /\ staff_cache = EmptyDict
    /\ last_check = NoCheck
    /\ nevents = 0

\* no AI command is given: the client is there, nobody is cooling down
NoRequest == [command |-> "none", user |-> 0, verdict |-> "none",
              api |-> "none", duration |-> 0,
              returned |-> "none", raised |-> FALSE, api_called |-> FALSE,
              waited |-> 0]
AssistantAtRest ==
    /\ client = "client"
    /\ user_cooldowns = EmptyDict
    /\ now = 0
    /\ last_request = NoRequest
    /\ nrequests = 0
\* the members of the guild moderated, the bot's own user among them
Members == {1, 2, 3}
BotUser == 3
\* positions of roles in the guild's hierarchy
Positions == {0, 1, 2}
\* no moderation command is given
NoModeration == [command |-> "none", in_guild |-> FALSE, author |-> 0,
                 target |-> 0, issued |-> "none", reply |-> "none"]
ModerationAtRest ==
    /\ owner_id = 1
    /\ top_role = [m \in Members |-> 0]
    /\ last_moderation = NoModeration
\* no list is shown
NoView == [page_index |-> 0, prev_disabled |-> TRUE, next_disabled |-> TRUE,
           requested |-> 0, last_press |-> "none"]
PagingAtRest ==
    /\ listed = << >>
    /\ per_page = PAGE_SIZE
    /\ pages = << >>
    /\ stage = "start"
    /\ view = NoView
AsideAtRest ==
    /\ AssistantAtRest
    /\ ModerationAtRest
    /\ PagingAtRest

(***************************************************************************)
(* The Warning Ledger.  Every method is an operator from the ledger and    *)
(* the outcome of each sqlite access it makes (error = sqlite3.Error was   *)
(* raised inside the with-block) to the new ledger and the value returned. *)
(***************************************************************************)

\* _init_database: keeps db_file unless creating the table raises
InitDatabase(dbf, error) ==
    IF dbf = None THEN dbf
    ELSE IF error THEN None
    ELSE dbf

\* the effect of a query on the table
RunQuery(table, query, user_id, value) ==
    CASE query = "SELECT" -> table
      [] query = "INSERT OR REPLACE" -> DictSet(table, user_id, value)
      [] query = "UPDATE" ->
            IF user_id \in DOMAIN table THEN DictSet(table, user_id, 0) ELSE table

\* an sqlite3.Error escaping the with-block is not caught
DbExecuteUncaught(L, query, user_id, value, fetch, error) ==
    IF L.db_file = None
    THEN [led |-> L, truthy |-> FALSE, warning_count |-> 0, raised |-> FALSE]
    ELSE IF error
    THEN [led |-> L, truthy |-> FALSE, warning_count |-> 0, raised |-> TRUE]
    ELSE IF fetch
    THEN [led |-> L, truthy |-> user_id \in DOMAIN L.db,
          warning_count |-> DictGet(L.db, user_id, 0), raised |-> FALSE]
    ELSE [led |-> [L EXCEPT !.db = RunQuery(L.db, query, user_id, value)],
          truthy |-> TRUE, warning_count |-> 0, raised |-> FALSE]

\* _db_execute: None (not truthy) without a database or on an error, which also
\* clears db_file; the fetched row as a dict, or None when there is no row;
\* True after a committed write
DbExecute(L, query, user_id, value, fetch, error) ==
    IF L.db_file = None
    THEN [led |-> L, truthy |-> FALSE, warning_count |-> 0, raised |-> FALSE]
    ELSE IF error
    THEN [led |-> [L EXCEPT !.db_file = None],
          truthy |-> FALSE, warning_count |-> 0, raised |-> FALSE]
    ELSE IF fetch
    THEN [led |-> L, truthy |-> user_id \in DOMAIN L.db,
          warning_count |-> DictGet(L.db, user_id, 0), raised |-> FALSE]
    ELSE [led |-> [L EXCEPT !.db = RunQuery(L.db, query, user_id, value)],
          truthy |-> TRUE, warning_count |-> 0, raised |-> FALSE]

\* get_warning_count
GetWarningCount(L, user_id, read_error) ==
    IF L.db_file # None
    THEN LET r == DbExecute(L, "SELECT", user_id, 0, TRUE, read_error)
         IN  IF r.raised
             THEN [led |-> r.led, ret |-> 0, raised |-> TRUE]
             ELSE IF r.truthy
             THEN [led |-> r.led, ret |-> r.warning_count, raised |-> FALSE]
             ELSE [led |-> r.led,
                   ret |-> DictGet(r.led.fallback_warnings, user_id, 0),
                   raised |-> FALSE]
    ELSE [led |-> L, ret |-> DictGet(L.fallback_warnings, user_id, 0),
          raised |-> FALSE]

\* line 167 and 168: store the new count in the fallback map and return it
StoreFallback(L, user_id, new_count) ==
    [led |-> [L EXCEPT !.fallback_warnings = DictSet(@, user_id, new_count)],
     ret |-> new_count, raised |-> FALSE]

\* increment_warning
IncrementWarning(L, user_id, read_error, write_error) ==
    LET g == GetWarningCount(L, user_id, read_error)
        new_count == g.ret + 1
    IN  IF g.raised THEN g
        ELSE IF g.led.db_file # None
        THEN LET w == DbExecute(g.led, "INSERT OR REPLACE", user_id, new_count,
                                FALSE, write_error)
             IN  IF w.raised
                 THEN [led |-> w.led, ret |-> 0, raised |-> TRUE]
                 ELSE IF w.truthy
                 THEN [led |-> w.led, ret |-> new_count, raised |-> FALSE]
                 ELSE StoreFallback(w.led, user_id, new_count)
        ELSE StoreFallback(g.led, user_id, new_count)

\* a reset that also re-opens the database file
ResetWarningsReopen(L, user_id, write_error) ==
    [led |-> [L EXCEPT !.db_file = DbName,
                       !.db = RunQuery(L.db, "UPDATE", user_id, 0)],
     ret |-> 1, raised |-> FALSE]

\* reset_warnings; it returns True (ret 1) on every path
ResetWarnings(L, user_id, write_error) ==
    IF L.db_file # None
    THEN LET w == DbExecute(L, "UPDATE", user_id, 0, FALSE, write_error)
         IN  IF w.raised
             THEN [led |-> w.led, ret |-> 0, raised |-> TRUE]
             ELSE IF w.truthy
             THEN [led |-> w.led, ret |-> 1, raised |-> FALSE]
             ELSE [led |-> [w.led EXCEPT !.fallback_warnings = DictPop(@, user_id)],
                   ret |-> 1, raised |-> FALSE]
    ELSE [led |-> [L EXCEPT !.fallback_warnings = DictPop(@, user_id)],
          ret |-> 1, raised |-> FALSE]

\* the count get_warning_count returns while the store answers
CurrentCount(L, user_id) == GetWarningCount(L, user_id, FALSE).ret

SetLedger(L) ==
    /\ db_file' = L.db_file
    /\ db' = L.db
    /\ fallback_warnings' = L.fallback_warnings

(***************************************************************************)
(* The ledger driven directly, one call at a time, as a caller or a test   *)
(* of get_warning_count / increment_warning / reset_warnings does.         *)
(***************************************************************************)
NoCall == [op |-> "none", user_id |-> 0, ret |-> 0, raised |-> FALSE,
           mode |-> None]
NoEvent == [decision |-> "none", staff |-> FALSE, matched |-> FALSE,
            skip |-> FALSE]
\* a slot no coroutine has used
Idle == [pc |-> "idle", author |-> 0, guild |-> NoGuild, staff |-> FALSE,
         user_id |-> 0, prior_count |-> 0, current_warnings |-> 0,
         delete |-> "none", kick |-> "none", sent |-> << >>, reset |-> FALSE,
         raised |-> "none"]

InitLedger ==
    /\ \E e \in BOOLEAN : db_file = InitDatabase(DbName, e)
    /\ db \in Dicts(Users, StartCounts)
    /\ fallback_warnings = EmptyDict
    /\ last_call = NoCall
    /\ history = [u \in Users |-> << >>]
    /\ start_count = [u \in Users |-> CurrentCount(Ledger, u)]
    /\ ncalls = 0
    /\ handlers = [i \in Slots |-> Idle]
    /\ last_event = NoEvent
    /\ arrived = 0
    /\ WordListAtRest(<<<<"a">>>>)
    /\ MatcherAtRest(Blacklist, <<<<"a">>>>)
    /\ StaffAtRest
    /\ AsideAtRest

Record(op, u, r) ==
    last_call' = [op |-> op, user_id |-> u, ret |-> r.ret, raised |-> r.raised,
                  mode |-> db_file]

CallGet(u) ==
    /\ ncalls < MaxCalls
    /\ \E e \in BOOLEAN :
          LET r == GetWarningCount(Ledger, u, e)
          IN  /\ SetLedger(r.led)
              /\ Record("get", u, r)
    /\ ncalls' = ncalls + 1
    /\ UNCHANGED <<history, start_count, pipeline, wordlist, matcher, staffing, aside>>

CallIncrement(u) ==
    /\ ncalls < MaxCalls
    /\ \E e1 \in BOOLEAN, e2 \in BOOLEAN :
          LET r == IncrementWarning(Ledger, u, e1, e2)
          IN  /\ SetLedger(r.led)
              /\ Record("increment", u, r)
              /\ history' = [history EXCEPT ![u] = Append(@, r.ret)]
    /\ ncalls' = ncalls + 1
    /\ UNCHANGED <<start_count, pipeline, wordlist, matcher, staffing, aside>>

CallReset(u) ==
    /\ ncalls < MaxCalls
    /\ \E e \in BOOLEAN :
          LET r == ResetWarnings(Ledger, u, e)
          IN  /\ SetLedger(r.led)
              /\ Record("reset", u, r)
    /\ history' = [history EXCEPT ![u] = << >>]
    /\ start_count' = [start_count EXCEPT ![u] = 0]
    /\ ncalls' = ncalls + 1
    /\ UNCHANGED <<pipeline, wordlist, matcher, staffing, aside>>

NextLedger ==
    \E u \in Users : CallGet(u) \/ CallIncrement(u) \/ CallReset(u)

SpecLedger == InitLedger /\ [][NextLedger]_vars

(***************************************************************************)
(* The moderation pipeline: AutoMod.on_message, _handle_max_warnings and   *)
(* _send_warning.  A message is handled synchronously up to its first      *)
(* await; every await (message.delete, fetch_member, member.kick,          *)
(* channel.send, warning_msg.delete) is a step of its own, at which the    *)
(* handlers of other messages interleave.  The platform decides how each   *)
(* awaited call ends.                                                      *)
(***************************************************************************)

\* how an awaited platform call ends: normally, or with discord.NotFound,
\* discord.Forbidden, or another discord.HTTPException
Outcomes == {"ok", "NotFound", "Forbidden", "HTTPException"}

\* message contents: empty, white space only, without and with the banned word
Texts == {<< >>, <<" ">>, <<"!">>, <<"!", " ", "A">>}

Messages == [author : Users, bot : BOOLEAN, guild : Guilds \cup {NoGuild},
             content : Texts]

\* str.strip() is empty
StripIsEmpty(text) == \A i \in 1..Len(text) : text[i] = " "

\* line 215: the matcher as AutoMod holds it
Matched(content) ==
    ContainsBlacklistedWord(automod_blacklist, automod_pattern, content)

\* line 209 without the test of message.guild
EarlyReturnNoGuildTest(message) ==
    message.bot \/ StripIsEmpty(message.content)

\* line 209
EarlyReturn(message) ==
    message.bot \/ message.guild = NoGuild \/ StripIsEmpty(message.content)

\* on_message without the staff check of line 212
OnMessageStartNoStaffCheck(message, staff) ==
    IF EarlyReturn(message) THEN "Ignore"
    ELSE IF Matched(message.content) THEN "Moderate"
    ELSE "Ignore"

\* lines 209 to 215: what on_message decides before its first await
OnMessageStart(message, staff) ==
    IF EarlyReturn(message) THEN "Ignore"
    ELSE IF staff THEN "Ignore"
    ELSE IF Matched(message.content) THEN "Moderate"
    ELSE "Ignore"

\* the coroutine of a message that is to be moderated, at await message.delete()
NewHandler(message, staff) ==
    [pc |-> "delete", author |-> message.author, guild |-> message.guild,
     staff |-> staff, user_id |-> Unbound, prior_count |-> 0,
     current_warnings |-> 0, delete |-> "none", kick |-> "none",
     sent |-> << >>, reset |-> FALSE, raised |-> "none"]

Notice(title, count) ==
    [title |-> title, count |-> count, final |-> FALSE]

\* _send_warning with the field added from MAX_WARNINGS on only
SendWarningLateField(h, warning_count) ==
    [h EXCEPT !.pc = "warn_send",
              !.sent = Append(@, [title |-> "Message Removed",
                                  count |-> warning_count,
                                  final |-> warning_count >= MAX_WARNINGS])]

\* _send_warning up to await message.channel.send
SendWarning(h, warning_count) ==
    [h EXCEPT !.pc = "warn_send",
              !.sent = Append(@, [title |-> "Message Removed",
                                  count |-> warning_count,
                                  final |-> warning_count >= MAX_WARNINGS - 1])]

\* _handle_max_warnings up to its first await: member.kick for a member the
\* guild has cached, fetch_member otherwise; kick records the removal attempt
HandleMaxWarnings(h, member_cached) ==
    IF member_cached THEN [h EXCEPT !.pc = "kick", !.kick = "pending"]
    ELSE [h EXCEPT !.pc = "fetch", !.kick = "pending"]

\* an except discord.Forbidden that drops the failure without a notice
SendCannotKickDropped(h) == [h EXCEPT !.pc = "done"]

\* lines 259 to 266: the notice of _handle_max_warnings' except discord.Forbidden
SendCannotKick(h) ==
    [h EXCEPT !.pc = "cannot_send",
              !.sent = Append(@, Notice("Max Warnings Reached", 0))]

Returned(h) == [h EXCEPT !.pc = "done"]

\* lines 228 to 230: on_message's except discord.Forbidden; reading user_id
\* before line 218 bound it raises UnboundLocalError out of on_message
ExceptForbidden(h, L, read_error) ==
    IF h.user_id = Unbound
    THEN [led |-> L, h |-> [h EXCEPT !.pc = "done", !.raised = "UnboundLocalError"]]
    ELSE LET g == GetWarningCount(L, h.user_id, read_error)
         IN  [led |-> g.led, h |-> SendWarning(h, g.ret)]

\* lines 225 to 232: where an exception raised inside on_message's try goes
OnMessageExcept(h, L, exception, read_error) ==
    CASE exception = "NotFound" -> [led |-> L, h |-> Returned(h)]
      [] exception = "Forbidden" -> ExceptForbidden(h, L, read_error)
      [] OTHER -> [led |-> L, h |-> Returned(h)]

\* lines 218 to 224, after message.delete() returned: bind user_id, count the
\* warning, then kick or warn
\* lines 218 to 224 with a counter of its own for every guild but the first:
\* there the violation counts as the first one and the ledger is left alone
AfterDeletePerGuild(h, L, read_error, write_error, member_cached) ==
    LET r == IF h.guild = 1
             THEN IncrementWarning(L, h.author, read_error, write_error)
             ELSE [led |-> L, ret |-> 1, raised |-> FALSE]
        h1 == [h EXCEPT !.user_id = h.author, !.current_warnings = r.ret]
    IN  [led |-> r.led,
         h |-> IF r.ret >= MAX_WARNINGS
               THEN HandleMaxWarnings(h1, member_cached)
               ELSE SendWarning(h1, r.ret)]

AfterDelete(h, L, read_error, write_error, member_cached) ==
    LET r == IncrementWarning(L, h.author, read_error, write_error)
        h1 == [h EXCEPT !.user_id = h.author, !.current_warnings = r.ret]
    IN  [led |-> r.led,
         h |-> IF r.ret >= MAX_WARNINGS
               THEN HandleMaxWarnings(h1, member_cached)
               ELSE SendWarning(h1, r.ret)]

SetHandler(i, r) ==
    /\ handlers' = [handlers EXCEPT ![i] = r.h]
    /\ SetLedger(r.led)

At(i, pc) == handlers[i].pc = pc

\* the outcomes of an sqlite access: none can fail once db_file is cleared,
\* because no access is made then
Errors == IF db_file = None THEN {FALSE} ELSE BOOLEAN
\* the outcomes of the write that follows a read: not made after a failed read
ErrorsAfter(read_error) == IF read_error THEN {FALSE} ELSE Errors

\* slots whose coroutine has not started or has ended; a new coroutine takes
\* a slot never used while there is one, and only then the slot of an ended one
Free ==
    LET unused == {i \in Slots : handlers[i].pc = "idle"}
    IN  IF unused # {} THEN unused ELSE {i \in Slots : handlers[i].pc = "done"}

InitPipeline ==
    /\ \E e \in BOOLEAN : db_file = InitDatabase(DbName, e)
    /\ db \in Dicts(Users, {MAX_WARNINGS - 2, MAX_WARNINGS - 1})
    /\ fallback_warnings = EmptyDict
    /\ last_call = NoCall
    /\ history = [u \in Users |-> << >>]
    /\ start_count = [u \in Users |-> CurrentCount(Ledger, u)]
    /\ ncalls = 0
    /\ handlers = [i \in Slots |-> Idle]
    /\ last_event = NoEvent
    /\ arrived = 0
    /\ WordListAtRest(<<<<"a">>>>)
    /\ MatcherAtRest(Blacklist, <<<<"a">>>>)
    /\ StaffAtRest
    /\ AsideAtRest

\* a message event is dispatched to on_message, which runs to its first await
Arrive ==
    /\ arrived < MaxMessages
    /\ arrived' = arrived + 1
    /\ \E message \in Messages :
       \* line 212 is reached, and _is_staff_cached called, only past line 209
       \E staff \in IF EarlyReturn(message) THEN {FALSE} ELSE BOOLEAN :
          LET decision == OnMessageStart(message, staff)
          IN  /\ last_event' =
                    [decision |-> decision, staff |-> staff,
                     matched |-> Matched(message.content),
                     \* from a bot, or a direct message, or nothing but
                     \* white space
                     skip |-> \/ message.bot
                              \/ message.guild \notin Guilds
                              \/ Strip(message.content) = << >>]
              /\ IF decision = "Moderate"
                 THEN /\ Free # {}
                      /\ LET i == CHOOSE k \in Free : \A j \in Free : k <= j
                         IN  handlers' = [handlers EXCEPT
                                             ![i] = NewHandler(message, staff)]
                 ELSE handlers' = handlers
    /\ UNCHANGED <<ledger, calls, start_count, wordlist, matcher, staffing, aside>>

\* await message.delete() ends
DeleteReturns(i) ==
    /\ At(i, "delete")
    /\ \E outcome \in Outcomes, e1 \in Errors, m \in BOOLEAN :
       \E e2 \in ErrorsAfter(e1) :
          LET h == [handlers[i] EXCEPT
                       !.delete = outcome,
                       !.prior_count = CurrentCount(Ledger, handlers[i].author)]
          IN  SetHandler(i, IF outcome = "ok"
                            THEN AfterDelete(h, Ledger, e1, e2, m)
                            ELSE OnMessageExcept(h, Ledger, outcome, e1))
    /\ UNCHANGED <<calls, start_count, last_event, arrived,
                   wordlist, matcher, staffing, aside>>

\* await message.guild.fetch_member(user_id) ends
FetchReturns(i) ==
    /\ At(i, "fetch")
    /\ \E outcome \in Outcomes, e \in Errors :
          LET h == handlers[i]
          IN  SetHandler(i,
                CASE outcome = "ok" ->
                        [led |-> Ledger, h |-> [h EXCEPT !.pc = "kick"]]
                  [] outcome = "NotFound" -> [led |-> Ledger, h |-> Returned(h)]
                  [] OTHER -> OnMessageExcept(h, Ledger, outcome, e))
    /\ UNCHANGED <<calls, start_count, last_event, arrived,
                   wordlist, matcher, staffing, aside>>

\* await member.kick(...) ends
KickReturns(i) ==
    /\ At(i, "kick")
    /\ \E outcome \in Outcomes :
          LET h == [handlers[i] EXCEPT !.kick = outcome]
          IN  SetHandler(i,
                CASE outcome = "ok" ->
                        [led |-> Ledger,
                         h |-> [h EXCEPT !.pc = "kicked_send",
                                         !.sent = Append(@, Notice("User Kicked", 0))]]
                  [] outcome = "Forbidden" -> [led |-> Ledger, h |-> SendCannotKick(h)]
                  [] OTHER -> [led |-> Ledger, h |-> Returned(h)])
    /\ UNCHANGED <<calls, start_count, last_event, arrived,
                   wordlist, matcher, staffing, aside>>

\* await message.channel.send of the "User Kicked" notice ends
KickedSendReturns(i) ==
    /\ At(i, "kicked_send")
    /\ \E outcome \in Outcomes, e \in Errors :
          LET h == handlers[i]
          IN  SetHandler(i,
                CASE outcome = "ok" ->
                        [led |-> ResetWarnings(Ledger, h.user_id, e).led,
                         h |-> [h EXCEPT !.pc = "done", !.reset = TRUE]]
                  [] outcome = "Forbidden" -> [led |-> Ledger, h |-> SendCannotKick(h)]
                  [] OTHER -> [led |-> Ledger, h |-> Returned(h)])
    /\ UNCHANGED <<calls, start_count, last_event, arrived,
                   wordlist, matcher, staffing, aside>>

\* await message.channel.send of the "Max Warnings Reached" notice ends; an
\* exception leaves _handle_max_warnings for on_message's except clauses
CannotSendReturns(i) ==
    /\ At(i, "cannot_send")
    /\ \E outcome \in Outcomes, e \in Errors :
          LET h == handlers[i]
          IN  SetHandler(i, IF outcome = "ok"
                            THEN [led |-> Ledger, h |-> Returned(h)]
                            ELSE OnMessageExcept(h, Ledger, outcome, e))
    /\ UNCHANGED <<calls, start_count, last_event, arrived,
                   wordlist, matcher, staffing, aside>>

\* await message.channel.send of the warning ends; _send_warning catches
\* every exception, and after a successful send only schedules the deletion
\* of the warning (warning_msg.delete(delay=10)) before on_message returns
WarnSendReturns(i) ==
    /\ At(i, "warn_send")
    /\ handlers' = [handlers EXCEPT ![i] = Returned(@)]
    /\ UNCHANGED <<ledger, calls, start_count, last_event, arrived, wordlist, matcher, staffing, aside>>

\* the warnings command (check_warnings) reads a member's count
CheckWarnings ==
    /\ \E u \in Users, e \in Errors :
          SetLedger(GetWarningCount(Ledger, u, e).led)
    /\ UNCHANGED <<calls, start_count, pipeline, wordlist, matcher, staffing, aside>>

Next ==
    \/ Arrive
    \/ CheckWarnings
    \/ \E i \in Slots :
          \/ DeleteReturns(i)
          \/ FetchReturns(i)
          \/ KickReturns(i)
          \/ KickedSendReturns(i)
          \/ CannotSendReturns(i)
          \/ WarnSendReturns(i)

Spec == InitPipeline /\ [][Next]_vars

\* no warning is counted: the table is empty and serves the ledger
LedgerAtRest ==
    /\ db_file = DbName
    /\ db = EmptyDict
    /\ fallback_warnings = EmptyDict
    /\ last_call = NoCall
    /\ history = [u \in Users |-> << >>]
    /\ start_count = [u \in Users |-> 0]
    /\ ncalls = 0

(***************************************************************************)
(* The word-list store.  BlacklistCog (cogs/blacklist.py) holds the word   *)
(* set, writes it to cogs/words.py and hands it to AutoMod;                *)
(* BlacklistManager (cogs/utils.py) is the list-based store, driven here   *)
(* directly on a words file of its own, as a caller of add / remove does.  *)
(***************************************************************************)
\* how writing a words file ends: written; open(path, "w") raised IOError
\* and the file is as it was; or the write raised IOError after open
\* truncated the file
IoOutcomes == {"ok", "open_failed", "write_failed"}

\* the outcomes of the write a command makes: there is none to fail when the
\* command returns before it writes
Writes(writing) == IF writing THEN IoOutcomes ELSE {"none"}

\* a write that leaves the file as it was
WriteFileStale(file, content, io) == file

WriteFile(file, content, io) ==
    CASE io = "ok" -> FileOf(content)
      [] io = "open_failed" -> file
      [] OTHER -> FileOf(<< >>)

\* sorted(list(words)): Python orders strings by code point, a proper
\* prefix first
Code(c) == CASE c = " " -> 32 [] c = "!" -> 33 [] c = "A" -> 65 [] OTHER -> 97
RECURSIVE StrLess(_, _)
StrLess(x, y) ==
    IF y = << >> THEN FALSE
    ELSE IF x = << >> THEN TRUE
    ELSE IF Head(x) = Head(y) THEN StrLess(Tail(x), Tail(y))
    ELSE Code(Head(x)) < Code(Head(y))
RECURSIVE SortedList(_)
SortedList(S) ==
    IF S = {} THEN << >>
    ELSE LET m == CHOOSE x \in S : \A y \in S : x = y \/ StrLess(x, y)
         IN  <<m>> \o SortedList(S \ {m})

\* save_blacklist_to_file: an IOError is printed, nothing is returned
SaveBlacklistToFile(words, file, io) == WriteFile(file, SortedList(words), io)
\* load_blacklist_from_file / BlacklistManager.load: the strings of the list
\* assigned to blat, in the order of the file; [] when there is none
LoadBlacklist(file) ==
    IF file.exists /\ file.parses
    THEN [i \in 1..Len(file.blat) |-> file.blat[i]]
    ELSE << >>

\* line 244 of add_bad_word that takes no word as listed
NeverListed(w, words) == FALSE

\* blacklist.py line 244 and line 258: w in self._blacklist_cache
Listed(w, words) == w \in words

\* utils.py line 80 and line 92: word_lower in self.blacklist
ManagerListed(w, list) == w \in Range(list)
\* list.remove: the first occurrence goes
RECURSIVE ListRemove(_, _)
ListRemove(list, w) ==
    IF list = << >> THEN list
    ELSE IF Head(list) = w THEN Tail(list)
    ELSE <<Head(list)>> \o ListRemove(Tail(list), w)

\* update_blacklist without line 52: the set is replaced, the pattern stays
UpdateBlacklistKeepPattern(new_set, compile_error) ==
    /\ automod_blacklist' = new_set
    /\ automod_pattern' = automod_pattern
    /\ staff_cache' = EmptyDict

\* AutoMod.update_blacklist: replace the set, recompile, clear the staff cache
UpdateBlacklist(new_set, compile_error) ==
    /\ automod_blacklist' = new_set
    /\ automod_pattern' = CompileBlacklistPatterns(new_set, compile_error)
    /\ staff_cache' = EmptyDict

\* BlacklistCog._persist_and_broadcast with the set already changed
PersistAndBroadcast(words, io, compile_error) ==
    /\ words_file' = SaveBlacklistToFile(words, words_file, io)
    /\ UpdateBlacklist(words, compile_error)

\* what the command was given (the word it normalizes to, whether it was typed
\* in that form, whether it was nothing but white space), what it answered and did, and whether it repeats the
\* command before it, which was applied
Reply(op, raw, reply, wrote, failed, broadcast) ==
    last_command' = [op |-> op, word |-> Normalize(raw),
                     plain |-> raw = Normalize(raw),
                     blank |-> \A i \in 1..Len(raw) : raw[i] = " ",
                     reply |-> reply,
                     wrote |-> wrote, failed |-> failed, broadcast |-> broadcast,
                     again |-> /\ last_command.op = op
                               /\ last_command.word = Normalize(raw)
                               /\ last_command.wrote]

\* the word lists a words file can hold when the process starts
StartLists == {<< >>, <<<<"a">>>>}
\* the words files the process can find when it starts
StartFiles == {NoFile, Garbled} \cup {FileOf(list) : list \in StartLists}

InitWords ==
    /\ words_file \in StartFiles
    /\ blacklist_cache = Range(LoadBlacklist(words_file))
    /\ manager_file \in StartFiles
    /\ manager_blacklist = LoadBlacklist(manager_file)
    /\ last_command = NoCommand
    /\ ncommands = 0
    /\ MatcherAtRest(Range(LoadBlacklist(words_file)), LoadBlacklist(words_file))
    /\ StaffAtRest
    /\ AsideAtRest
    /\ LedgerAtRest
    /\ handlers = [i \in Slots |-> Idle]
    /\ last_event = NoEvent
    /\ arrived = 0

\* what a word-list step leaves alone
WordsFrame ==
    UNCHANGED <<ledger, calls, start_count, handlers, last_event,
                perms, last_check, nevents, aside>>

\* The two stores share nothing (each has its own list and its own file), so
\* a run drives one of them: either the commands of BlacklistCog, reloads
\* and messages, or the BlacklistManager.
CogDriven == last_command.op \notin {"manager_add", "manager_remove"}
ManagerDriven ==
    /\ last_command.op \in {"none", "manager_add", "manager_remove"}
    /\ arrived = 0

\* the add_bad_word command
AddBadWord ==
    /\ CogDriven
    /\ ncommands < MaxCommands
    /\ ncommands' = ncommands + 1
    /\ \E raw \in RawWords :
       \E io \in Writes(Normalize(raw) # << >>
                      /\ ~Listed(Normalize(raw), blacklist_cache)) :
       \E compile_error \in IF io = "none" THEN {FALSE} ELSE BOOLEAN :
          LET w == Normalize(raw)
          IN  IF w = << >>
              THEN /\ Reply("add", raw, "invalid", FALSE, FALSE, FALSE)
                   /\ UNCHANGED <<words_file, blacklist_cache, automod_blacklist,
                                  automod_pattern, staff_cache>>
              ELSE IF Listed(w, blacklist_cache)
              THEN /\ Reply("add", raw, "already", FALSE, FALSE, FALSE)
                   /\ UNCHANGED <<words_file, blacklist_cache, automod_blacklist,
                                  automod_pattern, staff_cache>>
              ELSE /\ blacklist_cache' = blacklist_cache \cup {w}
                   /\ PersistAndBroadcast(blacklist_cache \cup {w}, io, compile_error)
                   /\ Reply("add", raw, "added", TRUE, io # "ok", TRUE)
    /\ UNCHANGED <<manager_file, manager_blacklist, automod_manager,
                   last_text, found, arrived>>
    /\ WordsFrame

\* the remove_bad_word command
RemoveBadWord ==
    /\ CogDriven
    /\ ncommands < MaxCommands
    /\ ncommands' = ncommands + 1
    /\ \E raw \in RawWords :
       \E io \in Writes(Listed(Normalize(raw), blacklist_cache)) :
       \E compile_error \in IF io = "none" THEN {FALSE} ELSE BOOLEAN :
          LET w == Normalize(raw)
          IN  IF w = << >>
              THEN /\ Reply("remove", raw, "invalid", FALSE, FALSE, FALSE)
                   /\ UNCHANGED <<words_file, blacklist_cache, automod_blacklist,
                                  automod_pattern, staff_cache>>
              ELSE IF ~Listed(w, blacklist_cache)
              THEN /\ Reply("remove", raw, "not_found", FALSE, FALSE, FALSE)
                   /\ UNCHANGED <<words_file, blacklist_cache, automod_blacklist,
                                  automod_pattern, staff_cache>>
              ELSE /\ blacklist_cache' = blacklist_cache \ {w}
                   /\ PersistAndBroadcast(blacklist_cache \ {w}, io, compile_error)
                   /\ Reply("remove", raw, "removed", TRUE, io # "ok", TRUE)
    /\ UNCHANGED <<manager_file, manager_blacklist, automod_manager,
                   last_text, found, arrived>>
    /\ WordsFrame

\* BlacklistManager.add; the reply is the value returned
ManagerAdd ==
    /\ ManagerDriven
    /\ ncommands < MaxCommands
    /\ ncommands' = ncommands + 1
    /\ \E raw \in RawWords :
       \E io \in Writes(Normalize(raw) # << >>
                      /\ ~ManagerListed(Normalize(raw), manager_blacklist)) :
          LET w == Normalize(raw)
          IN  IF w = << >> \/ ManagerListed(w, manager_blacklist)
              THEN /\ Reply("manager_add", raw, "False", FALSE, FALSE, FALSE)
                   /\ UNCHANGED <<manager_file, manager_blacklist>>
              ELSE /\ manager_blacklist' = Append(manager_blacklist, w)
                   /\ manager_file' =
                         WriteFile(manager_file, Append(manager_blacklist, w), io)
                   /\ Reply("manager_add", raw,
                            IF io = "ok" THEN "True" ELSE "False",
                            TRUE, io # "ok", FALSE)
    /\ UNCHANGED <<words_file, blacklist_cache, matcher, staff_cache, arrived>>
    /\ WordsFrame

\* BlacklistManager.remove
ManagerRemove ==
    /\ ManagerDriven
    /\ ncommands < MaxCommands
    /\ ncommands' = ncommands + 1
    /\ \E raw \in RawWords :
       \E io \in Writes(ManagerListed(Normalize(raw), manager_blacklist)) :
          LET w == Normalize(raw)
          IN  IF w = << >> \/ ~ManagerListed(w, manager_blacklist)
              THEN /\ Reply("manager_remove", raw, "False", FALSE, FALSE, FALSE)
                   /\ UNCHANGED <<manager_file, manager_blacklist>>
              ELSE /\ manager_blacklist' = ListRemove(manager_blacklist, w)
                   /\ manager_file' =
                         WriteFile(manager_file, ListRemove(manager_blacklist, w), io)
                   /\ Reply("manager_remove", raw,
                            IF io = "ok" THEN "True" ELSE "False",
                            TRUE, io # "ok", FALSE)
    /\ UNCHANGED <<words_file, blacklist_cache, matcher, staff_cache, arrived>>
    /\ WordsFrame

\* the automod_reload command: AutoMod.reload_blacklist reads cogs/words.py
\* through its manager, recompiles and clears the staff cache
ReloadBlacklist ==
    /\ CogDriven
    /\ ncommands < MaxCommands
    /\ ncommands' = ncommands + 1
    /\ \E compile_error \in BOOLEAN :
          UpdateBlacklist(Range(LoadBlacklist(words_file)), compile_error)
    /\ automod_manager' = LoadBlacklist(words_file)
    /\ Reply("reload", << >>, "reloaded", FALSE, FALSE, FALSE)
    /\ UNCHANGED <<words_file, blacklist_cache, manager_file, manager_blacklist,
                   last_text, found, arrived>>
    /\ WordsFrame

\* contents of the messages that follow word-list commands
MessageTexts == {<<"a">>, <<"A", "a">>}

\* on_message hands the content of a message to the matcher
MatchMessage ==
    /\ CogDriven
    /\ arrived < MaxMessages
    /\ arrived' = arrived + 1
    /\ \E t \in MessageTexts :
          /\ last_text' = t
          /\ found' = <<Matched(t)>>
    /\ UNCHANGED <<wordlist, automod_blacklist, automod_pattern, automod_manager,
                   staff_cache>>
    /\ UNCHANGED <<ledger, calls, start_count, handlers, last_event,
                   perms, last_check, nevents, aside>>

NextWords ==
    \/ AddBadWord
    \/ RemoveBadWord
    \/ ManagerAdd
    \/ ManagerRemove
    \/ ReloadBlacklist
    \/ MatchMessage

SpecWords == InitWords /\ [][NextWords]_vars

(***************************************************************************)
(* The same store with readers of AutoMod.blacklist.  No code in cogs/     *)
(* reads the property; a caller that does meets the list AutoMod's own     *)
(* BlacklistManager read at construction or at the last reload.            *)
(***************************************************************************)
\* the blacklist property, lines 95 to 104: when the manager's list differs
\* from the set, the set is replaced by it and the pattern recompiled
ReadBlacklist ==
    /\ CogDriven
    /\ ncommands < MaxCommands
    /\ ncommands' = ncommands + 1
    /\ IF Range(automod_manager) # automod_blacklist
       THEN /\ automod_blacklist' = Range(automod_manager)
            /\ \E compile_error \in BOOLEAN :
                  automod_pattern' =
                     CompileBlacklistPatterns(Range(automod_manager), compile_error)
       ELSE UNCHANGED <<automod_blacklist, automod_pattern>>
    /\ Reply("read", << >>, "set", FALSE, FALSE, FALSE)
    /\ UNCHANGED <<words_file, blacklist_cache, manager_file, manager_blacklist,
                   automod_manager, staff_cache, last_text, found, arrived>>
    /\ WordsFrame

NextReads == NextWords \/ ReadBlacklist

SpecReads == InitWords /\ [][NextReads]_vars

(***************************************************************************)
(* The matcher on its own: AutoMod is handed a word set                    *)
(* (update_blacklist), compiles it, and is then asked about texts.         *)
(***************************************************************************)
\* the words a list can hold: a letter, a punctuation mark, and their pairs
MatcherWords == {w \in Seqs({"a", "!"}, 2) : w # << >>}
\* word sets of at most two words
WordLists == {S \in SUBSET MatcherWords : \E x, y \in MatcherWords : S \subseteq {x, y}}

InitMatcher ==
    /\ MatcherAtRest({}, << >>)
    /\ WordListAtRest(<< >>)
    /\ StaffAtRest
    /\ AsideAtRest
    /\ LedgerAtRest
    /\ handlers = [i \in Slots |-> Idle]
    /\ last_event = NoEvent
    /\ arrived = 0

\* AutoMod.update_blacklist(new_set)
SetWordList ==
    /\ \E new_set \in WordLists, compile_error \in BOOLEAN :
          UpdateBlacklist(new_set, compile_error)
    /\ last_text' = << >>
    /\ found' = << >>
    /\ UNCHANGED <<ledger, calls, start_count, pipeline, wordlist,
                   automod_manager, perms, last_check, nevents, aside>>

\* _contains_blacklisted_word(t).  The search changes nothing it reads, so
\* one search after each update_blacklist reaches every answer it can give.
Search ==
    /\ found = << >>
    /\ \E t \in MatcherTexts :
          /\ last_text' = t
          /\ found' = <<Matched(t)>>
    /\ UNCHANGED <<automod_blacklist, automod_pattern, automod_manager>>
    /\ UNCHANGED <<ledger, calls, start_count, pipeline, wordlist, staffing, aside>>

NextMatcher == SetWordList \/ Search

SpecMatcher == InitMatcher /\ [][NextMatcher]_vars

(***************************************************************************)
(* The staff check on its own: messages ask whether their author is staff, *)
(* the guild changes what a member may do, and a word-list update or       *)
(* reload clears the cache.  AutoMod listens to on_message only: no        *)
(* handler runs when a member or a role is updated.                        *)
(***************************************************************************)
InitStaff ==
    /\ StaffAtRest
    /\ AsideAtRest
    /\ MatcherAtRest({}, << >>)
    /\ WordListAtRest(<< >>)
    /\ LedgerAtRest
    /\ handlers = [i \in Slots |-> Idle]
    /\ last_event = NoEvent
    /\ arrived = 0

StaffFrame ==
    UNCHANGED <<ledger, calls, start_count, pipeline, wordlist, matcher, aside>>

\* on_message line 212: self._is_staff_cached(message.author.id, message.guild.id)
StaffCheck ==
    /\ nevents < MaxEvents
    /\ \E key \in Keys :
          LET r == IsStaffCached(staff_cache, perms, key) IN
          /\ staff_cache' = r.cache
          /\ last_check' = [key |-> key, answer |-> r.answer, hit |-> r.hit]
    /\ nevents' = nevents + 1
    /\ UNCHANGED perms
    /\ StaffFrame

\* the guild grants or withdraws a permission, the member joins or leaves,
\* the bot joins or leaves the guild: discord.py updates its own cache of
\* guilds and members, and nothing of AutoMod runs
PermissionChange ==
    /\ nevents < MaxEvents
    /\ \E key \in Keys, standing \in Standings :
          /\ standing # perms[key]
          /\ perms' = [perms EXCEPT ![key] = standing]
    /\ last_check' = NoCheck
    /\ nevents' = nevents + 1
    /\ UNCHANGED staff_cache
    /\ StaffFrame

\* self._is_staff_cached.cache_clear() in update_blacklist (line 54) and in
\* reload_blacklist (line 302), the word set staying what it is
CacheClear ==
    /\ nevents < MaxEvents
    /\ staff_cache' = EmptyDict
    /\ last_check' = NoCheck
    /\ nevents' = nevents + 1
    /\ UNCHANGED perms
    /\ StaffFrame

NextStaff == StaffCheck \/ PermissionChange \/ CacheClear

SpecStaff == InitStaff /\ [][NextStaff]_vars

(***************************************************************************)
(* The AI commands (cogs/ai.py): the per-user rate limit and the bounded   *)
(* generation request.                                                     *)
(***************************************************************************)
\* what all the cogs outside ai.py hold, left alone by the AI commands
CoreFrame ==
    UNCHANGED <<ledger, calls, start_count, pipeline, wordlist, matcher, staffing>>
\* an AI command leaves the other cogs alone
AssistantFrame == CoreFrame /\ UNCHANGED <<moderation, paging>>

\* _check_rate_limit that records the time of a rejected request as well
CheckRateLimitRestart(cooldowns, user_id, t) ==
    [ok |-> ~(user_id \in DOMAIN cooldowns
               /\ t - cooldowns[user_id] < COOLDOWN_SECONDS),
     cooldowns |-> DictSet(cooldowns, user_id, t)]

\* _check_rate_limit(user_id) at time.time() = t: the answer and the dict
CheckRateLimit(cooldowns, user_id, t) ==
    IF user_id \in DOMAIN cooldowns /\ t - cooldowns[user_id] < COOLDOWN_SECONDS
    THEN [ok |-> FALSE, cooldowns |-> cooldowns]
    ELSE [ok |-> TRUE, cooldowns |-> DictSet(cooldowns, user_id, t)]

\* how client.models.generate_content ends: a text, no text, an exception
ApiOutcomes == {"text", "empty", "error"}
\* how long it takes, in seconds: done in time, or still running when the
\* timeout of asyncio.wait_for fires
Durations == {1, REQUEST_TIMEOUT + 1}

\* _generate_sync through _generate_response_async: the text (cut to
\* MAX_RESPONSE_LENGTH), the sentence for an empty response, or the exception
\* re-raised
GenerateSync(api) ==
    CASE api = "text" -> [ret |-> "generated", raised |-> FALSE]
      [] api = "empty" -> [ret |-> "could_not_generate", raised |-> FALSE]
      [] OTHER -> [ret |-> "none", raised |-> TRUE]

\* _generate_response_with_timeout without its except Exception
GenerateUncaught(cl, api, duration) ==
    IF cl = None
    THEN [returned |-> "not_available", raised |-> FALSE, api_called |-> FALSE,
          waited |-> 0]
    ELSE IF duration > REQUEST_TIMEOUT
    THEN [returned |-> "timed_out", raised |-> FALSE, api_called |-> TRUE,
          waited |-> REQUEST_TIMEOUT]
    ELSE [returned |-> GenerateSync(api).ret, raised |-> GenerateSync(api).raised,
          api_called |-> TRUE, waited |-> duration]

\* _generate_response_with_timeout: what it returns, whether it raises,
\* whether the API was called and for how long the caller waited
GenerateResponseWithTimeout(cl, api, duration) ==
    IF cl = None
    THEN [returned |-> "not_available", raised |-> FALSE, api_called |-> FALSE,
          waited |-> 0]
    ELSE IF duration > REQUEST_TIMEOUT
    THEN [returned |-> "timed_out", raised |-> FALSE, api_called |-> TRUE,
          waited |-> REQUEST_TIMEOUT]
    ELSE IF GenerateSync(api).raised
    THEN [returned |-> "error_message", raised |-> FALSE, api_called |-> TRUE,
          waited |-> duration]
    ELSE [returned |-> GenerateSync(api).ret, raised |-> FALSE,
          api_called |-> TRUE, waited |-> duration]

\* _initialize_client either sets the client or, on any exception, None
InitAssistant ==
    /\ client \in {None, "client"}
    /\ user_cooldowns = EmptyDict
    /\ now = 0
    /\ last_request = NoRequest
    /\ nrequests = 0
    /\ ModerationAtRest
    /\ PagingAtRest
    /\ StaffAtRest
    /\ MatcherAtRest({}, << >>)
    /\ WordListAtRest(<< >>)
    /\ LedgerAtRest
    /\ handlers = [i \in Slots |-> Idle]
    /\ last_event = NoEvent
    /\ arrived = 0

\* a second passes
TickClock ==
    /\ now < MaxTime
    /\ now' = now + 1
    /\ UNCHANGED <<client, user_cooldowns, last_request, nrequests>>
    /\ AssistantFrame

\* an ask or joke command up to its reply: the rate limit first, for ask the
\* length test of the question next, then the generation
HandleCommand(command, user_id, valid, api, duration) ==
    LET r == CheckRateLimit(user_cooldowns, user_id, now)
        g == GenerateResponseWithTimeout(client, api, duration)
        c == [command |-> command, user |-> user_id, api |-> api,
              duration |-> duration]
        silent == [returned |-> "none", raised |-> FALSE, api_called |-> FALSE,
                   waited |-> 0]
    IN  [cooldowns |-> r.cooldowns,
         request |-> IF ~r.ok THEN c @@ silent @@ [verdict |-> "slow_down"]
                     ELSE IF ~valid
                     THEN c @@ silent @@ [verdict |-> "invalid_question"]
                     ELSE c @@ g @@ [verdict |-> "answered"]]

\* ask_command, lines 215 to 264
AskCommand ==
    /\ nrequests < MaxRequests
    /\ nrequests' = nrequests + 1
    /\ \E user_id \in Users, valid \in BOOLEAN, api \in ApiOutcomes,
          duration \in Durations :
          LET r == HandleCommand("ask", user_id, valid, api, duration)
          IN  /\ user_cooldowns' = r.cooldowns
              /\ last_request' = r.request
    /\ UNCHANGED <<client, now>>
    /\ AssistantFrame

\* joke_command, lines 266 to 305
JokeCommand ==
    /\ nrequests < MaxRequests
    /\ nrequests' = nrequests + 1
    /\ \E user_id \in Users, api \in ApiOutcomes, duration \in Durations :
          LET r == HandleCommand("joke", user_id, TRUE, api, duration)
          IN  /\ user_cooldowns' = r.cooldowns
              /\ last_request' = r.request
    /\ UNCHANGED <<client, now>>
    /\ AssistantFrame

NextAssistant == TickClock \/ AskCommand \/ JokeCommand

SpecAssistant == InitAssistant /\ [][NextAssistant]_vars

(***************************************************************************)
(* The kick, ban and mute commands (cogs/moderation.py).                   *)
(***************************************************************************)
\* _can_moderate without the comparison of the top roles
CanModerateNoHierarchy(owner, roles, author, target) ==
    IF target = BotUser THEN [ok |-> FALSE, msg |-> "cannot_moderate_myself"]
    ELSE IF target = author THEN [ok |-> FALSE, msg |-> "cannot_moderate_yourself"]
    ELSE IF target = owner THEN [ok |-> FALSE, msg |-> "cannot_moderate_owner"]
    ELSE [ok |-> TRUE, msg |-> ""]

\* _can_moderate(guild, author, target)
CanModerate(owner, roles, author, target) ==
    IF target = BotUser THEN [ok |-> FALSE, msg |-> "cannot_moderate_myself"]
    ELSE IF target = author THEN [ok |-> FALSE, msg |-> "cannot_moderate_yourself"]
    ELSE IF target = owner THEN [ok |-> FALSE, msg |-> "cannot_moderate_owner"]
    ELSE IF roles[target] >= roles[author] /\ author # owner
    THEN [ok |-> FALSE, msg |-> "higher_role"]
    ELSE [ok |-> TRUE, msg |-> ""]

\* how member.kick / member.ban / member.add_roles ends
DiscordOutcomes == {"ok", "Forbidden", "HTTPException"}

\* the body shared by kick, ban and mute after the tests of ctx.guild and
\* ctx.author (and, for mute, the lookup of the MUTED role): the call made on
\* the target, if any, and the reply
Moderate(call, author, target, outcome) ==
    LET can == CanModerate(owner_id, top_role, author, target)
    IN  IF ~can.ok THEN [issued |-> "none", reply |-> can.msg]
        ELSE [issued |-> call,
              reply |-> CASE outcome = "ok" -> "done"
                          [] outcome = "Forbidden" -> "no_permission"
                          [] OTHER -> "discord_error"]

\* what the command was given, with what it did
Moderation(command, in_guild, author, target, r) ==
    [command |-> command, in_guild |-> in_guild, author |-> author,
     target |-> target, issued |-> r.issued, reply |-> r.reply]

\* the guilds a command can be given in: any owner, any order of top roles
InitModeration ==
    /\ owner_id \in Members
    /\ top_role \in [Members -> Positions]
    /\ last_moderation = NoModeration
    /\ AssistantAtRest
    /\ PagingAtRest
    /\ StaffAtRest
    /\ MatcherAtRest({}, << >>)
    /\ WordListAtRest(<< >>)
    /\ LedgerAtRest
    /\ handlers = [i \in Slots |-> Idle]
    /\ last_event = NoEvent
    /\ arrived = 0

ModerationFrame ==
    CoreFrame /\ UNCHANGED <<assistant, paging, owner_id, top_role>>

\* kick, lines 126 to 147.  in_guild: ctx.guild is set and ctx.author is a
\* Member of it
Kick ==
    /\ \E in_guild \in BOOLEAN, author \in Members, target \in Members,
          outcome \in DiscordOutcomes :
          last_moderation' =
             Moderation("kick", in_guild, author, target,
                        IF ~in_guild THEN [issued |-> "none", reply |-> "server_only"]
                        ELSE Moderate("kick", author, target, outcome))
    /\ ModerationFrame

\* ban, lines 151 to 172
Ban ==
    /\ \E in_guild \in BOOLEAN, author \in Members, target \in Members,
          outcome \in DiscordOutcomes :
          last_moderation' =
             Moderation("ban", in_guild, author, target,
                        IF ~in_guild THEN [issued |-> "none", reply |-> "server_only"]
                        ELSE Moderate("ban", author, target, outcome))
    /\ ModerationFrame

\* mute, lines 176 to 202: the MUTED role is looked up before _can_moderate
Mute ==
    /\ \E in_guild \in BOOLEAN, author \in Members, target \in Members,
          mute_role \in BOOLEAN, outcome \in DiscordOutcomes :
          last_moderation' =
             Moderation("mute", in_guild, author, target,
                        IF ~in_guild THEN [issued |-> "none", reply |-> "server_only"]
                        ELSE IF ~mute_role
                        THEN [issued |-> "none", reply |-> "create_muted_role"]
                        ELSE Moderate("add_roles", author, target, outcome))
    /\ ModerationFrame

NextModeration == Kick \/ Ban \/ Mute

SpecModeration == InitModeration /\ [][NextModeration]_vars

(***************************************************************************)
(* The list viewer (cogs/blacklist.py): chunk_words and PaginatorView.     *)
(* A word is known by a name and its len(); a page is kept as the list of  *)
(* the words that ", ".join makes its text of.                             *)
(***************************************************************************)
\* the words of a list: a short one, two that fill a page together with
\* their separator or overflow it, and one longer than MONO_MAX
WordNames == {"s", "n", "m", "x"}
WordLen(w) ==
    CASE w = "s" -> 1
      [] w = "n" -> MONO_MAX - 997
      [] w = "m" -> MONO_MAX - 995
      [] OTHER -> MONO_MAX + 1

Max(a, b) == IF a >= b THEN a ELSE b
Min(a, b) == IF a <= b THEN a ELSE b

\* line 73 without the separator
AddLenNoSeparator(page, w) == WordLen(w)
\* line 73: add_len = (2 if page else 0) + len(w)
AddLen(page, w) == (IF page # << >> THEN 2 ELSE 0) + WordLen(w)

\* the for loop of chunk_words, lines 72 to 82, and lines 83 to 85 after it
RECURSIVE ChunkLoop(_, _, _, _, _)
ChunkLoop(ws, per, done, page, length) ==
    IF ws = << >>
    THEN IF page # << >> THEN Append(done, page) ELSE done
    ELSE LET w == Head(ws)
             add_len == AddLen(page, w)
             split == page # << >> /\ length + add_len > MONO_MAX
             done1 == IF split THEN Append(done, page) ELSE done
             page1 == IF split THEN <<w>> ELSE Append(page, w)
             length1 == IF split THEN WordLen(w) ELSE length + add_len
             full == Len(page1) >= per
         IN  ChunkLoop(Tail(ws), per,
                       IF full THEN Append(done1, page1) ELSE done1,
                       IF full THEN << >> ELSE page1,
                       IF full THEN 0 ELSE length1)

\* chunk_words(words, per_page)
ChunkWords(ws, per) == ChunkLoop(ws, per, << >>, << >>, 0)

\* __init__ line 141 that takes page_index as given
KeepPageIndex(page_index, npages) == page_index
\* __init__ line 141: max(0, min(page_index, max(0, len(self.pages) - 1)))
ClampPageIndex(page_index, npages) == Max(0, Min(page_index, Max(0, npages - 1)))

\* _sync_buttons, lines 160 to 163, on a view with npages pages
SyncButtons(v, npages) ==
    LET last_idx == Max(0, npages - 1)
    IN  [v EXCEPT !.prev_disabled = v.page_index <= 0,
                  !.next_disabled = v.page_index >= last_idx \/ last_idx = 0]

\* the page_index values a PaginatorView can be asked for
RequestedIndexes == (0 - 1) .. (MaxWords + 1)

InitPaging ==
    /\ listed \in Seqs(WordNames, MaxWords)
    /\ per_page \in 1..MaxPerPage
    /\ pages = << >>
    /\ stage = "start"
    /\ view = NoView
    /\ AssistantAtRest
    /\ ModerationAtRest
    /\ StaffAtRest
    /\ MatcherAtRest({}, << >>)
    /\ WordListAtRest(<< >>)
    /\ LedgerAtRest
    /\ handlers = [i \in Slots |-> Idle]
    /\ last_event = NoEvent
    /\ arrived = 0

PagingFrame == CoreFrame /\ UNCHANGED <<assistant, moderation, listed, per_page>>

\* a call of chunk_words(listed, per_page)
CallChunkWords ==
    /\ stage = "start"
    /\ stage' = "chunked"
    /\ pages' = ChunkWords(listed, per_page)
    /\ UNCHANGED view
    /\ PagingFrame

\* PaginatorView(words, page_index=requested), lines 137 to 158
OpenPaginator ==
    /\ stage = "start"
    /\ stage' = "open"
    /\ pages' = ChunkWords(listed, PAGE_SIZE)
    /\ \E requested \in RequestedIndexes :
          view' = SyncButtons(
                     [NoView EXCEPT !.requested = requested,
                                    !.page_index =
                                       ClampPageIndex(requested,
                                                      Len(ChunkWords(listed, PAGE_SIZE)))],
                     Len(ChunkWords(listed, PAGE_SIZE)))
    /\ PagingFrame

\* _on_prev, lines 181 to 185
OnPrev ==
    /\ stage = "open"
    /\ view' = SyncButtons(
                   [view EXCEPT !.last_press = "prev",
                                !.page_index = IF @ > 0 THEN @ - 1 ELSE @],
                   Len(pages))
    /\ UNCHANGED <<pages, stage>>
    /\ PagingFrame

\* _on_next, lines 192 to 197
OnNext ==
    /\ stage = "open"
    /\ view' = SyncButtons(
                   [view EXCEPT !.last_press = "next",
                                !.page_index =
                                   IF @ < Max(0, Len(pages) - 1) THEN @ + 1 ELSE @],
                   Len(pages))
    /\ UNCHANGED <<pages, stage>>
    /\ PagingFrame

NextPaging == CallChunkWords \/ OpenPaginator \/ OnPrev \/ OnNext

SpecPaging == InitPaging /\ [][NextPaging]_vars

(***************************************************************************)
(* Claims on the ledger.                                                   *)
(***************************************************************************)

\* C3: for a user starting at count 0, N sequential increment_warning calls
\* return 1, 2, ..., N and leave get_warning_count at N; after a following
\* reset_warnings, get_warning_count is 0.
C3_SequentialIncrements ==
    /\ \A u \in Users :
          start_count[u] = 0 =>
             /\ \A i \in 1..Len(history[u]) : history[u][i] = i
             /\ CurrentCount(Ledger, u) = Len(history[u])
    /\ last_call.op = "reset" => CurrentCount(Ledger, last_call.user_id) = 0

\* a direct ledger call is being made in this step
LedgerCall == ncalls' = ncalls + 1

\* C4: no ledger call raises to its caller, the call that meets the storage
\* error included, and every call made once the store has failed (db_file
\* cleared, at initialization or by an earlier read or write error) is served
\* from the in-memory fallback map alone: get returns the map's entry or 0,
\* increment returns that plus one and stores it in the map, reset drops the
\* map's entry and returns True; the table is not touched.
C4_FallbackServes ==
    [][LedgerCall =>
        /\ ~last_call'.raised
        /\ db_file = None =>
             LET c == last_call'
                 u == c.user_id
                 old == DictGet(fallback_warnings, u, 0)
             IN  /\ db_file' = None
                 /\ db' = db
                 /\ c.op = "get" =>
                       c.ret = old /\ fallback_warnings' = fallback_warnings
                 /\ c.op = "increment" =>
                       /\ c.ret = old + 1
                       /\ fallback_warnings' = DictSet(fallback_warnings, u, old + 1)
                 /\ c.op = "reset" =>
                       /\ c.ret = 1
                       /\ fallback_warnings' = DictPop(fallback_warnings, u)
                       /\ DictGet(fallback_warnings', u, 0) = 0]_vars

\* C4 witness: the table was written in this run (the row holds a count no run
\* starts with), the store then failed, and a later increment was served by
\* the fallback map
C4_Witness ==
    /\ last_call.op = "increment"
    /\ last_call.mode = None
    /\ \E u \in DOMAIN db : db[u] \notin StartCounts
    /\ last_call.user_id \in DOMAIN fallback_warnings
    /\ fallback_warnings[last_call.user_id] = last_call.ret
    /\ last_call.ret >= 2

\* C19: a user's count is never negative, and no ledger call makes the count
\* get_warning_count reports for a user smaller than it was, the switch to
\* the in-memory fallback included, unless the call is reset_warnings for
\* that user.
C19_CountNeverDrops ==
    [][LedgerCall =>
        \A u \in Users :
           /\ CurrentCount(Ledger', u) >= 0
           /\ \/ CurrentCount(Ledger', u) >= CurrentCount(Ledger, u)
              \/ last_call'.op = "reset" /\ last_call'.user_id = u]_vars

(***************************************************************************)
(* Claims on the pipeline.                                                 *)
(***************************************************************************)

Ended(i) == handlers[i].pc = "done"
Titles(h) == {h.sent[k].title : k \in 1..Len(h.sent)}
\* h sent the ordinary warning showing count n
Warned(h, n) ==
    \E k \in 1..Len(h.sent) :
       h.sent[k].title = "Message Removed" /\ h.sent[k].count = n

\* C1: every message with a banned word from an author who is not exempt is
\* counted as new_count = prior_count + 1; the removal of the author is
\* attempted iff new_count >= MAX_WARNINGS, and otherwise the ordinary warning
\* showing new_count is sent (and no ordinary warning when removal is
\* attempted).
C1_Escalation ==
    \A i \in Slots :
       Ended(i) =>
          LET h == handlers[i]
          IN  /\ h.current_warnings = h.prior_count + 1
              /\ (h.kick # "none") <=> (h.current_warnings >= MAX_WARNINGS)
              /\ h.current_warnings < MAX_WARNINGS => Warned(h, h.current_warnings)
              /\ h.current_warnings >= MAX_WARNINGS =>
                    "Message Removed" \notin Titles(h)

\* C2: when the staff check answers true for a message's author, on_message
\* decides Ignore even if the content holds a banned word: no coroutine is
\* left to delete, warn or kick (no handler ever belongs to an exempt author)
\* and the ledger, so the author's warning count, is as before.
C2_StaffIgnored ==
    [][/\ \A i \in Slots : ~handlers'[i].staff
       /\ (arrived' = arrived + 1 /\ last_event'.staff) =>
             /\ last_event'.decision = "Ignore"
             /\ UNCHANGED <<handlers, db_file, db, fallback_warnings>>]_vars

\* C2 witness: an exempt author's message holding a banned word was ignored
\* while that could have cost a warning
C2_Witness ==
    /\ last_event.staff
    /\ last_event.matched
    /\ last_event.decision = "Ignore"
    /\ \A i \in Slots : handlers[i].pc = "idle"

\* C5: once db_file is cleared, no step sets it again.
C5_OneWay == [][db_file = None => db_file' = None]_vars

\* C5 witness: the table was written in this run, the ledger then degraded,
\* and a later call was served by the fallback map
C5_Witness ==
    /\ db_file = None
    /\ \E u \in DOMAIN db : db[u] >= MAX_WARNINGS
    /\ fallback_warnings # EmptyDict

\* C6: when the violating messages of one user have all been handled and no
\* reset happened, the user's count is higher than at the start by the number
\* of those messages (looked at while every handled message still has its
\* slot: no more messages than slots have arrived).
C6_NoLostUpdate ==
    \A u \in Users :
       LET mine == {i \in Slots : handlers[i].pc # "idle" /\ handlers[i].author = u}
       IN  (/\ mine # {}
            /\ arrived <= Cardinality(Slots)
            /\ \A i \in mine : Ended(i) /\ ~handlers[i].reset) =>
              CurrentCount(Ledger, u) = start_count[u] + Cardinality(mine)

\* C7: when the kick succeeded, the handler has reset the user's warnings by
\* the time it ends, whatever became of the other side effects.
C7_ResetAfterKick ==
    \A i \in Slots : (Ended(i) /\ handlers[i].kick = "ok") => handlers[i].reset

\* C8 as stated: when the kick failed with Forbidden, the count is still at
\* least MAX_WARNINGS when the handler ends, the "cannot be kicked" notice
\* was sent and nothing was raised.  The count is looked at only while the
\* table still serves the ledger, so that no storage failure is involved.
C8_CountStays ==
    [][\A i \in Slots :
          (~Ended(i) /\ handlers'[i].pc = "done" /\ handlers'[i].kick = "Forbidden") =>
             /\ db_file' # None =>
                   CurrentCount(Ledger, handlers[i].author)' >= MAX_WARNINGS
             /\ "Max Warnings Reached" \in Titles(handlers'[i])
             /\ handlers'[i].raised = "none"]_vars

\* C8 as amended: a handler whose kick failed with Forbidden never resets the
\* user's warnings, the failed kick itself leaves the ledger as it was, the
\* "cannot be kicked" notice is sent and nothing is raised.
C8_KickForbidden ==
    [][\A i \in Slots :
          handlers'[i].kick = "Forbidden" =>
             /\ ~handlers'[i].reset
             /\ "Max Warnings Reached" \in Titles(handlers'[i])
             /\ handlers'[i].raised = "none"
             /\ handlers[i].kick = "pending" =>
                   UNCHANGED <<db_file, db, fallback_warnings>>]_vars

\* C8 witness: a handler ended after its kick failed with Forbidden
C8_Witness ==
    \E i \in Slots :
       /\ Ended(i)
       /\ handlers[i].kick = "Forbidden"
       /\ handlers[i].current_warnings >= MAX_WARNINGS
       /\ CurrentCount(Ledger, handlers[i].author) >= MAX_WARNINGS

\* C9: when message.delete() fails with NotFound or Forbidden the rest still
\* runs: the warning is counted and the author is warned or removed.
C9_DeleteFailureContinues ==
    \A i \in Slots :
       (Ended(i) /\ handlers[i].delete \in {"NotFound", "Forbidden"}) =>
          /\ handlers[i].current_warnings = handlers[i].prior_count + 1
          /\ handlers[i].kick # "none" \/ handlers[i].sent # << >>

\* C10: on_message never ends with an exception.
C10_NoUnhandledException ==
    \A i \in Slots : handlers[i].raised = "none"

\* C11: a message from a bot, or without a guild, or with empty or
\* white-space-only content is ignored even if it holds a banned word: the
\* decision is Ignore, no coroutine is left to delete, warn or kick (no
\* handler ever belongs to a direct message) and the ledger is as before.
C11_SkippedMessages ==
    [][/\ \A i \in Slots :
             handlers'[i].pc # "idle" => handlers'[i].guild \in Guilds
       /\ (arrived' = arrived + 1 /\ last_event'.skip) =>
             /\ last_event'.decision = "Ignore"
             /\ UNCHANGED <<handlers, db_file, db, fallback_warnings>>]_vars

\* C11 witness: a message that must be skipped and holds a banned word was
\* ignored while a handler of an earlier message was still running
C11_Witness ==
    /\ last_event.skip
    /\ last_event.matched
    /\ last_event.decision = "Ignore"
    /\ \E i \in Slots : handlers[i].pc \notin {"idle", "done"}

\* C23: every warning notice handed to channel.send shows the count
\* get_warning_count holds for the author at that moment, out of
\* MAX_WARNINGS; it carries the Final Warning field when the count shown is
\* MAX_WARNINGS - 1 and does not carry it for a lower count.
C23_NoticeShowsCount ==
    [][\A i \in Slots :
          LET h == handlers'[i]
              n == Len(h.sent)
          IN  (n > Len(handlers[i].sent) /\ h.sent[n].title = "Message Removed") =>
                 /\ h.sent[n].count = CurrentCount(Ledger', h.author)
                 /\ h.sent[n].count = MAX_WARNINGS - 1 => h.sent[n].final
                 /\ h.sent[n].count < MAX_WARNINGS - 1 => ~h.sent[n].final]_vars

\* C23 witness: one author was sent a first warning without the field and
\* another the warning of count MAX_WARNINGS - 1 with it
C23_Witness ==
    \E i, j \in Slots :
       /\ handlers[i].sent # << >> /\ handlers[j].sent # << >>
       /\ handlers[i].sent[1] =
             [title |-> "Message Removed", count |-> 1, final |-> FALSE]
       /\ handlers[j].sent[1] =
             [title |-> "Message Removed", count |-> MAX_WARNINGS - 1,
              final |-> TRUE]

\* C24: the counter belongs to the user alone.  While the store does not
\* fail, a violation counted for an author in any guild raises the one count
\* get_warning_count holds for that author by one and leaves every other
\* author's count alone; the removal is attempted, in the guild of the
\* message, exactly when that count reaches MAX_WARNINGS; and a reset after
\* a kick leaves the author's count at 0 whatever the guild.
C24_OneCounterPerUser ==
    [][\A i \in Slots :
          LET h == handlers[i]
              h1 == handlers'[i]
          IN  /\ (h.pc = "delete" /\ h1.user_id # Unbound /\ db_file' = db_file) =>
                    /\ h1.guild = h.guild /\ h1.author = h.author
                    /\ h1.current_warnings = CurrentCount(Ledger, h.author) + 1
                    /\ CurrentCount(Ledger', h.author) = h1.current_warnings
                    /\ \A u \in Users \ {h.author} :
                          CurrentCount(Ledger', u) = CurrentCount(Ledger, u)
                    /\ (h1.kick # "none") <=> (h1.current_warnings >= MAX_WARNINGS)
              /\ (h1.reset /\ ~h.reset /\ h1.author = h.author) =>
                    CurrentCount(Ledger', h.author) = 0]_vars

\* C24 witness: one author was warned with count MAX_WARNINGS - 1 in one
\* guild and met the removal attempt, at count MAX_WARNINGS, in another
C24_Witness ==
    \E i, j \in Slots :
       /\ handlers[i].author = handlers[j].author
       /\ handlers[i].guild # handlers[j].guild
       /\ handlers[i].guild \in Guilds /\ handlers[j].guild \in Guilds
       /\ handlers[i].current_warnings = MAX_WARNINGS - 1
       /\ handlers[j].current_warnings = MAX_WARNINGS
       /\ handlers[j].kick # "none"
       /\ handlers[j].reset
       /\ CurrentCount(Ledger, handlers[j].author) = 0

(***************************************************************************)
(* Claims on the word-list store.                                          *)
(***************************************************************************)

\* a word-list command or call is being made in this step
WordListCall == ncommands' = ncommands + 1

\* C12: adding a word that is not listed changes the list by exactly that
\* word; adding a word that is listed (typed in any casing, with any white
\* space around it), in particular repeating the add just applied, is
\* answered as a no-op, changes neither the list nor the file and hands
\* nothing to AutoMod.  For add_bad_word and for BlacklistManager.add.
C12_AddIdempotent ==
    [][WordListCall =>
        LET c == last_command'
        IN  /\ (c.op = "add" /\ c.word # << >>) =>
                  IF c.word \in blacklist_cache
                  THEN /\ c.reply = "already" /\ ~c.wrote /\ ~c.broadcast
                       /\ UNCHANGED <<blacklist_cache, words_file,
                                      automod_blacklist, automod_pattern>>
                  ELSE /\ c.reply = "added"
                       /\ blacklist_cache' = blacklist_cache \cup {c.word}
            /\ (c.op = "manager_add" /\ c.word # << >>) =>
                  IF c.word \in Range(manager_blacklist)
                  THEN /\ c.reply = "False" /\ ~c.wrote
                       /\ UNCHANGED <<manager_blacklist, manager_file>>
                  ELSE manager_blacklist' = Append(manager_blacklist, c.word)
            /\ (c.again /\ c.op \in {"add", "manager_add"}) =>
                  /\ c.reply \in {"already", "False"} /\ ~c.wrote /\ ~c.broadcast
                  /\ UNCHANGED <<blacklist_cache, words_file, manager_blacklist,
                                 manager_file, automod_blacklist, automod_pattern>>]_vars

\* C12 witness: add_bad_word was given, in another casing or with white
\* space around it, the word the add_bad_word before it had just added
C12_Witness ==
    /\ last_command.op = "add"
    /\ last_command.again
    /\ ~last_command.plain
    /\ last_command.reply = "already"
    /\ last_command.word \in blacklist_cache

\* C13: when the write of the words file fails during an add or a remove,
\* the failure is reported, the in-memory list is as before the operation
\* and nothing is handed to AutoMod.
C13_SaveFailureKeepsList ==
    [][(WordListCall /\ last_command'.failed) =>
          /\ last_command'.reply \notin {"added", "removed", "True"}
          /\ ~last_command'.broadcast
          /\ UNCHANGED <<blacklist_cache, manager_blacklist, automod_blacklist>>]_vars

\* C14: every message is matched against the word set BlacklistCog holds,
\* that is the set as the last applied add or remove left it: AutoMod's set
\* is that set and its pattern, when compiled, is compiled from it.
C14_MatcherFollowsStore ==
    [][arrived' = arrived + 1 =>
          /\ automod_blacklist = blacklist_cache
          /\ automod_pattern.compiled => automod_pattern.words = blacklist_cache]_vars

\* w is a stored word as it should be: not empty, lower case, trimmed
IsNormal(w) ==
    /\ w # << >>
    /\ w[1] # " " /\ w[Len(w)] # " "
    /\ \A i \in 1..Len(w) : w[i] # "A"

\* C20: after every add and remove the word lists hold no duplicate, no
\* empty string and only lower-cased trimmed words; an add or remove given
\* nothing but white space is rejected and changes nothing; a remove of a
\* word that is not listed is a no-op: no write, nothing handed to AutoMod.
C20_ListStaysNormal ==
    [][/\ \A w \in blacklist_cache' : IsNormal(w)
       /\ \A i \in 1..Len(manager_blacklist') :
             /\ IsNormal(manager_blacklist'[i])
             /\ \A j \in 1..Len(manager_blacklist') :
                   manager_blacklist'[i] = manager_blacklist'[j] => i = j
       /\ WordListCall =>
             LET c == last_command'
                 nothing == /\ ~c.wrote /\ ~c.broadcast
                            /\ UNCHANGED <<blacklist_cache, words_file,
                                           manager_blacklist, manager_file,
                                           automod_blacklist, automod_pattern>>
             IN  /\ (c.blank /\ c.op \in {"add", "remove"}) =>
                       c.reply = "invalid" /\ nothing
                 /\ (c.blank /\ c.op \in {"manager_add", "manager_remove"}) =>
                       c.reply = "False" /\ nothing
                 /\ (c.op = "remove" /\ ~c.blank /\ c.word \notin blacklist_cache) =>
                       c.reply = "not_found" /\ nothing
                 /\ (c.op = "manager_remove" /\ ~c.blank
                                             /\ c.word \notin Range(manager_blacklist)) =>
                       c.reply = "False" /\ nothing]_vars

\* C20 witness: after an add and a remove were applied, a remove typed with
\* upper case or white space names a word that is not listed any more
C20_Witness ==
    /\ last_command.op = "remove"
    /\ last_command.reply = "not_found"
    /\ ~last_command.plain
    /\ ncommands = MaxCommands
    /\ blacklist_cache # {}
    /\ words_file = FileOf(SortedList(blacklist_cache))
    /\ \E w \in blacklist_cache : <<w>> \notin StartLists

\* the file cannot be loaded: it is absent or is not Python
Unloadable(file) == ~file.exists \/ ~file.parses

C21_PatternOfCurrentSet ==
    /\ automod_blacklist = {} => automod_pattern = NoPattern
    /\ automod_pattern.compiled => automod_pattern.words = automod_blacklist
    /\ automod_pattern \in {NoPattern,
                             CompileBlacklistPatterns(automod_blacklist, FALSE)}

\* C21 witness: a read of the blacklist property replaced the set by the
\* manager's list, which is no longer the set BlacklistCog holds, and the
\* pattern was compiled from it
C21_Witness ==
    /\ last_command.op = "read"
    /\ automod_blacklist = Range(automod_manager)
    /\ automod_blacklist # blacklist_cache
    /\ automod_pattern.compiled
    /\ automod_pattern.words = automod_blacklist

\* C27: once an add_bad_word, remove_bad_word or automod_reload command has
\* completed, whether or not its write of the words file succeeded, the word
\* set AutoMod matches against is the word set BlacklistCog holds.
C27_SetsAgree == automod_blacklist = blacklist_cache

(***************************************************************************)
(* Claims on the matcher.                                                  *)
(***************************************************************************)

\* w occurs in t, ignoring case, as a whole token: neither the character
\* before the occurrence nor the one after it is a word character
WholeToken(w, t) ==
    \E p \in 0..Len(t) :
       /\ MatchesAt(w, t, p)
       /\ ~IsWordAt(t, p)
       /\ ~IsWordAt(t, p + Len(w) + 1)

\* C15: with the pattern compiled (or the word list empty), the matcher
\* answers true exactly when some word of the list occurs in the text,
\* ignoring case, as a whole token; so in particular for a word between two
\* blanks, not for a word inside a longer token, and never for an empty list.
C15_WholeTokenMatch ==
    (found # << >> /\ (automod_pattern.compiled \/ automod_blacklist = {})) =>
       (found[1] <=> \E w \in automod_blacklist : WholeToken(w, last_text))

\* C16: when compiling the pattern of a non-empty word list failed, the
\* matcher answers false for every text.
C16_FailClosed ==
    (found # << >> /\ automod_blacklist # {} /\ ~automod_pattern.compiled) =>
       ~found[1]

(***************************************************************************)
(* Claims on the staff check.                                              *)
(***************************************************************************)

\* C17: every staff check answers true exactly when the author now holds
\* manage_messages or administrator in that guild or owns it, and false when
\* the guild or the member is unknown; the answer is that of the guild the
\* message came from.
C17_StaffAnswer ==
    [][(nevents' # nevents /\ last_check'.key \in Keys) =>
          (last_check'.answer <=> IsStaff(perms[last_check'.key]))]_vars

\* C18: a permission change of a member invalidates the cached answer for
\* that member in that guild.
C18_ChangeInvalidates ==
    [][\A key \in Keys :
          perms'[key] # perms[key] => key \notin DOMAIN staff_cache']_vars

(***************************************************************************)
(* Claims on the AI commands.                                              *)
(***************************************************************************)

\* an ask or joke command is being handled in this step
RequestStep == nrequests' = nrequests + 1

\* C25: every generation request returns a text and does not raise, after at
\* most REQUEST_TIMEOUT seconds: the generated text when the call succeeds,
\* the timed-out sentence when the call is still running at REQUEST_TIMEOUT,
\* the error sentence when the call raises, and the not-available sentence,
\* with no call of the API, when the client was not initialized.
C25_GenerationNonFatal ==
    [][(RequestStep /\ last_request'.verdict = "answered") =>
          LET c == last_request'
          IN  /\ ~c.raised
              /\ c.returned # "none"
              /\ c.waited <= REQUEST_TIMEOUT
              /\ client = None <=> c.returned = "not_available"
              /\ client = None => ~c.api_called
              /\ client # None =>
                    /\ c.api_called
                    /\ c.duration > REQUEST_TIMEOUT <=> c.returned = "timed_out"
                    /\ (c.duration <= REQUEST_TIMEOUT /\ c.api = "error") <=>
                          c.returned = "error_message"
                    /\ (c.duration <= REQUEST_TIMEOUT /\ c.api = "text") <=>
                          c.returned = "generated"]_vars

\* C25 witness: with a client, a call that raised was answered with the error
\* sentence
C25_Witness ==
    /\ client # None
    /\ last_request.verdict = "answered"
    /\ last_request.api = "error"
    /\ last_request.duration <= REQUEST_TIMEOUT
    /\ last_request.returned = "error_message"
    /\ ~last_request.raised

\* C26: a command of a user whose last command that passed the rate limit is
\* less than COOLDOWN_SECONDS old is rejected, calls nothing and leaves the
\* cooldown as it is; a command that passes comes COOLDOWN_SECONDS or more
\* after the one before it and becomes the new start of the cooldown; no
\* command touches the cooldown of another user.
C26_RateLimit ==
    [][RequestStep =>
          LET c == last_request'
              u == c.user
              cooling == /\ u \in DOMAIN user_cooldowns
                         /\ now - user_cooldowns[u] < COOLDOWN_SECONDS
          IN  /\ cooling <=> c.verdict = "slow_down"
              /\ cooling => user_cooldowns' = user_cooldowns /\ ~c.api_called
              /\ ~cooling =>
                    /\ u \in DOMAIN user_cooldowns'
                    /\ user_cooldowns'[u] = now
                    /\ u \in DOMAIN user_cooldowns =>
                          now - user_cooldowns[u] >= COOLDOWN_SECONDS
              /\ \A v \in Users \ {u} :
                    /\ v \in DOMAIN user_cooldowns' <=> v \in DOMAIN user_cooldowns
                    /\ v \in DOMAIN user_cooldowns =>
                          user_cooldowns'[v] = user_cooldowns[v]]_vars

\* C26 witness: both users are cooling down, the one served last from this
\* second on, COOLDOWN_SECONDS or more into the run, the other from an
\* earlier second of its own
C26_Witness ==
    /\ last_request.verdict = "answered"
    /\ nrequests = MaxRequests
    /\ now >= COOLDOWN_SECONDS
    /\ DOMAIN user_cooldowns = Users
    /\ user_cooldowns[last_request.user] = now
    /\ \E v \in Users : user_cooldowns[v] # now

(***************************************************************************)
(* Claims on the moderation commands.                                      *)
(***************************************************************************)

\* the target may not be moderated by the author: it is the bot, the author,
\* the owner of the guild, or its top role is not below the author's while
\* the author is not the owner
Protected(author, target) ==
    \/ target = BotUser
    \/ target = author
    \/ target = owner_id
    \/ top_role[target] >= top_role[author] /\ author # owner_id

\* C28: kick, ban and mute issue no kick, ban or role assignment on a
\* protected target and answer with an error reply instead.
C28_ProtectedTargets ==
    (last_moderation.command # "none"
       /\ Protected(last_moderation.author, last_moderation.target)) =>
          /\ last_moderation.issued = "none"
          /\ last_moderation.reply \notin {"none", "done"}

\* C28 witness: someone who is not the owner asked to ban a member whose top
\* role equals theirs (neither the bot, nor the owner, nor themselves) and
\* was refused for the hierarchy
C28_Witness ==
    /\ last_moderation.command = "ban"
    /\ last_moderation.in_guild
    /\ last_moderation.reply = "higher_role"
    /\ last_moderation.issued = "none"
    /\ last_moderation.target \notin {BotUser, owner_id, last_moderation.author}
    /\ top_role[last_moderation.target] = top_role[last_moderation.author]

(***************************************************************************)
(* Claims on the list viewer.                                              *)
(***************************************************************************)

\* C29: in an open PaginatorView, whatever page_index it was constructed
\* with and whatever was pressed, page_index lies between 0 and
\* max(0, number of pages - 1), Previous is disabled exactly on the first
\* page and Next exactly on the last; Previous on the first page and Next on
\* the last leave page_index as it is.
C29_PageIndexInRange ==
    [][stage' = "open" =>
          LET last == Max(0, Len(pages') - 1)
          IN  /\ 0 <= view'.page_index /\ view'.page_index <= last
              /\ view'.prev_disabled <=> view'.page_index = 0
              /\ view'.next_disabled <=> view'.page_index = last
              /\ (stage = "open" /\ view'.last_press = "prev"
                     /\ view.page_index = 0) => view'.page_index = 0
              /\ (stage = "open" /\ view'.last_press = "next"
                     /\ view.page_index = Max(0, Len(pages) - 1)) =>
                    view'.page_index = view.page_index]_vars

\* C29 witness: a view asked to open beyond its last page, of three or more
\* pages, was paged back to a page in the middle
C29_Witness ==
    /\ stage = "open"
    /\ Len(pages) >= 3
    /\ view.requested > Len(pages) - 1
    /\ view.last_press = "prev"
    /\ view.page_index = 1
    /\ ~view.prev_disabled /\ ~view.next_disabled

\* the length of ", ".join(page)
JoinedLen(page) ==
    LET RECURSIVE Sum(_)
        Sum(q) == IF q = << >> THEN 0 ELSE WordLen(Head(q)) + Sum(Tail(q))
    IN  Sum(page) + 2 * (Len(page) - 1)

\* the words of the pages, in order
RECURSIVE Flatten(_)
Flatten(ps) == IF ps = << >> THEN << >> ELSE Head(ps) \o Flatten(Tail(ps))

\* C30: the pages chunk_words returns are not empty, hold per_page words at
\* most, have a joined text of MONO_MAX characters at most when no single
\* word is longer than MONO_MAX, and hold, taken in order, exactly the words
\* given in the order given.
C30_ChunksKeepWords ==
    stage = "chunked" =>
       /\ \A i \in 1..Len(pages) :
             /\ pages[i] # << >>
             /\ Len(pages[i]) <= per_page
             /\ (\A k \in 1..Len(listed) : WordLen(listed[k]) <= MONO_MAX) =>
                   JoinedLen(pages[i]) <= MONO_MAX
       /\ Flatten(pages) = listed

\* C30 witness: a list with no word longer than MONO_MAX was split where the
\* separator would have made the page too long, and not where two words and
\* their separator fill a page exactly
C30_Witness ==
    /\ stage = "chunked"
    /\ per_page >= 2
    /\ listed = <<"m", "m", "n">>
    /\ pages = << <<"m">>, <<"m", "n">> >>
    /\ JoinedLen(pages[2]) = MONO_MAX

====
